---------------------------- MODULE Spec2Model ----------------------------
(***************************************************************************)
(* SmartScan AI backend (src/main.py, src/schemas.py).                     *)
(*                                                                         *)
(* The pure helpers (compute_verdict, detect_allergens), the two handlers  *)
(* that talk to the external product API (find_alternatives,               *)
(* barcode_lookup) and the request handlers that use the document store    *)
(* (generate_verdict, scan_image, get_or_create_profile, root,             *)
(* test_database) are modelled.  The store helpers create_document and     *)
(* get_documents live in the module `database`, which is not part of the   *)
(* sources at hand; they are modelled from their documented contract.      *)
(*                                                                         *)
(* Specifications:                                                         *)
(*   Spec          all endpoints, requests of several clients interleaved  *)
(*   SpecSeq       get_or_create_profile requests handled one at a time    *)
(*   SpecVerdict   compute_verdict on every goal and item                  *)
(*   SpecAllergen  detect_allergens on every text and allergy list         *)
(*   SpecAlt       find_alternatives on every behaviour of the search API  *)
(*   SpecBarcode   barcode_lookup on every behaviour of the product API    *)
(***************************************************************************)
EXTENDS Integers, Sequences, FiniteSets, TLC

VARIABLES
    userprofile,   \* the "userprofile" collection: documents in insertion order
    scanrecord,    \* the "scanrecord" collection: documents in insertion order
    nextId,        \* the next ObjectId the store hands out
    pc,            \* per client: "idle" or the request it has in flight
    started,       \* number of requests accepted so far
    completed,     \* per endpoint: number of requests answered
    response,      \* the last response sent
    history,       \* SpecSeq: the responses of the profile requests, in order
    input,         \* pure-function specifications: the arguments
    output         \* pure-function specifications: the result ("pending" before)

vars == <<userprofile, scanrecord, nextId, pc, started, completed, response,
          history, input, output>>

storeVars == <<userprofile, scanrecord, nextId, pc, started, completed, response,
               history>>

-----------------------------------------------------------------------------
(* Python values.  A value is a record [t, s, n]: t is the type tag, s the  *)
(* characters of a str, n the number of an int, a bool (0/1) or a float.   *)
(* A float is counted in halves (n = 2 * value), so that 5.5 is a value    *)
(* and the integer thresholds of the source stay as written; nan is the    *)
(* float that every ordering comparison answers False for.                 *)

PyNone == [t |-> "none", s |-> <<>>, n |-> 0]

PyStr(chars) == [t |-> "str", s |-> chars, n |-> 0]

PyInt(k) == [t |-> "int", s |-> <<>>, n |-> k]

PyBool(b) == [t |-> "bool", s |-> <<>>, n |-> IF b THEN 1 ELSE 0]

PyFloat(halves) == [t |-> "float", s |-> <<>>, n |-> halves]

PyNaN == [t |-> "nan", s |-> <<>>, n |-> 0]

\* dict.get(key) of a key the dict does not hold.
Absent == [t |-> "absent", s |-> <<>>, n |-> 0]

\* x <= c, x >= c, x > c for a float x and an integer literal c.
FloatLe(x, c) == x.t = "float" /\ x.n <= 2 * c

FloatGe(x, c) == x.t = "float" /\ x.n >= 2 * c

FloatGt(x, c) == x.t = "float" /\ x.n > 2 * c

\* Python truthiness of None, a str or a number.
Truthy(v) ==
    CASE v.t \in {"none", "absent"} -> FALSE
      [] v.t = "str" -> v.s # <<>>
      [] v.t \in {"int", "bool", "float"} -> v.n # 0
      [] OTHER -> TRUE

\* a or b
PyOr(a, b) == IF Truthy(a) THEN a ELSE b

Max(a, b) == IF a >= b THEN a ELSE b

Min(a, b) == IF a <= b THEN a ELSE b

-----------------------------------------------------------------------------
(* schemas.py *)

GoalType == {"balanced", "weight_loss", "muscle_gain", "heart_health", "low_sugar"}

\* Nutrients: only the fields main.py reads or writes by name are kept apart;
\* carbs stands for the fields that are only carried along.
Nutrients(calories, protein, carbs, sugar) ==
    [present |-> TRUE, calories |-> calories, protein |-> protein,
     carbs |-> carbs, sugar |-> sugar]

\* ScanItem.nutrients = None
NoNutrients ==
    [present |-> FALSE, calories |-> PyNone, protein |-> PyNone,
     carbs |-> PyNone, sugar |-> PyNone]

ScanItem(name, brand, barcode, image_url, ingredients_text, nutrients, processing_level) ==
    [name |-> name, brand |-> brand, barcode |-> barcode, image_url |-> image_url,
     ingredients_text |-> ingredients_text, nutrients |-> nutrients,
     processing_level |-> processing_level]

Verdict(color, score, explanation, insulin_risk) ==
    [color |-> color, score |-> score, explanation |-> explanation,
     insulin_risk |-> insulin_risk]

Alternative(name, brand, image_url, barcode) ==
    [name |-> name, brand |-> brand, image_url |-> image_url, barcode |-> barcode]

\* UserProfile(user_id=...): every other field takes its default.
UserProfile(user_id) ==
    [user_id |-> user_id, name |-> PyNone, goal |-> "balanced", allergies |-> <<>>,
     sensitivities |-> <<>>, language |-> "en"]

ScanRecord(user_id, goal, item, verdict, allergens_found, alternatives) ==
    [user_id |-> user_id, goal |-> goal, item |-> item, verdict |-> verdict,
     allergens_found |-> allergens_found, alternatives |-> alternatives]

-----------------------------------------------------------------------------
(* compute_verdict, main.py 33-73.  Each step takes and returns the pair    *)
(* of locals [score, insulin_risk].                                        *)

\* SugarStep with the penalty of line 46 mistyped
SugarStepPenalty20(goal, item, st) ==
    IF item.nutrients.present /\ item.nutrients.sugar # PyNone
    THEN LET sugar == item.nutrients.sugar IN
         IF goal \in {"low_sugar", "heart_health"}
         THEN IF FloatLe(sugar, 5)
              THEN [score |-> st.score + 20, insulin_risk |-> "low"]
              ELSE IF FloatLe(sugar, 10)
                   THEN [score |-> st.score + 0, insulin_risk |-> "medium"]
                   ELSE [score |-> st.score - 20, insulin_risk |-> "high"]
         ELSE st
    ELSE st

\* SugarStep with the two thresholds of lines 41 and 43 taken as strict
SugarStepStrict(goal, item, st) ==
    IF item.nutrients.present /\ item.nutrients.sugar # PyNone
    THEN LET sugar == item.nutrients.sugar IN
         IF goal \in {"low_sugar", "heart_health"}
         THEN IF sugar.t = "float" /\ sugar.n < 2 * 5
              THEN [score |-> st.score + 20, insulin_risk |-> "low"]
              ELSE IF sugar.t = "float" /\ sugar.n < 2 * 10
                   THEN [score |-> st.score + 0, insulin_risk |-> "medium"]
                   ELSE [score |-> st.score - 25, insulin_risk |-> "high"]
         ELSE st
    ELSE st

SugarStep(goal, item, st) ==
    IF item.nutrients.present /\ item.nutrients.sugar # PyNone
    THEN LET sugar == item.nutrients.sugar IN
         IF goal \in {"low_sugar", "heart_health"}
         THEN IF FloatLe(sugar, 5)
              THEN [score |-> st.score + 20, insulin_risk |-> "low"]
              ELSE IF FloatLe(sugar, 10)
                   THEN [score |-> st.score + 0, insulin_risk |-> "medium"]
                   ELSE [score |-> st.score - 25, insulin_risk |-> "high"]
         ELSE st
    ELSE st

\* ProteinStep without the test of the goal
ProteinStepAnyGoal(goal, item, st) ==
    IF item.nutrients.present /\ item.nutrients.protein # PyNone
    THEN LET protein == item.nutrients.protein IN
         IF FloatGe(protein, 20)
         THEN [st EXCEPT !.score = @ + 15]
         ELSE IF FloatGe(protein, 10)
              THEN [st EXCEPT !.score = @ + 5]
              ELSE [st EXCEPT !.score = @ - 10]
    ELSE st

ProteinStep(goal, item, st) ==
    IF item.nutrients.present /\ item.nutrients.protein # PyNone /\ goal = "muscle_gain"
    THEN LET protein == item.nutrients.protein IN
         IF FloatGe(protein, 20)
         THEN [st EXCEPT !.score = @ + 15]
         ELSE IF FloatGe(protein, 10)
              THEN [st EXCEPT !.score = @ + 5]
              ELSE [st EXCEPT !.score = @ - 10]
    ELSE st

CaloriesStep(goal, item, st) ==
    IF item.nutrients.present /\ item.nutrients.calories # PyNone /\ goal = "weight_loss"
    THEN LET c == item.nutrients.calories IN
         IF FloatLe(c, 150)
         THEN [st EXCEPT !.score = @ + 10]
         ELSE IF FloatGt(c, 350)
              THEN [st EXCEPT !.score = @ - 15]
              ELSE st
    ELSE st

Clamp(score) == Max(0, Min(100, score))

\* Color with the green threshold at the starting score
ColorGreenFrom70(score) ==
    IF score >= 70 THEN "green" ELSE (IF score >= 55 THEN "yellow" ELSE "red")

Color(score) == IF score >= 75 THEN "green" ELSE (IF score >= 55 THEN "yellow" ELSE "red")

Explanation(color) ==
    IF color = "green"
    THEN "Balanced nutrients; aligns well with your selected goal."
    ELSE IF color = "yellow"
         THEN "Mixed profile; moderation advised based on your goal."
         ELSE "High risk factors for your goal; consider safer option."

compute_verdict(goal, item) ==
    LET st0 == [score |-> 70, insulin_risk |-> "medium"]
        st1 == SugarStep(goal, item, st0)
        st2 == ProteinStep(goal, item, st1)
        st3 == CaloriesStep(goal, item, st2)
        score == Clamp(st3.score)
        color == Color(score)
    IN  Verdict(color, score, Explanation(color), st3.insulin_risk)

-----------------------------------------------------------------------------
(* detect_allergens, main.py 76-84.  A str is the sequence of its          *)
(* characters.                                                             *)

UpperCase == <<"A", "B", "C", "D", "E", "F", "G", "H", "I", "J", "K", "L", "M",
               "N", "O", "P", "Q", "R", "S", "T", "U", "V", "W", "X", "Y", "Z">>

LowerCase == <<"a", "b", "c", "d", "e", "f", "g", "h", "i", "j", "k", "l", "m",
               "n", "o", "p", "q", "r", "s", "t", "u", "v", "w", "x", "y", "z">>

LowerChar(ch) ==
    IF \E k \in 1..Len(UpperCase) : UpperCase[k] = ch
    THEN LowerCase[CHOOSE k \in 1..Len(UpperCase) : UpperCase[k] = ch]
    ELSE ch

RECURSIVE LowerChars(_)
LowerChars(chars) ==
    IF chars = <<>> THEN <<>> ELSE <<LowerChar(Head(chars))>> \o LowerChars(Tail(chars))

\* v.lower()
PyLower(v) == PyStr(LowerChars(v.s))

\* a in b, for two strs
PyIn(a, b) ==
    \E i \in 0..(Len(b.s) - Len(a.s)) : SubSeq(b.s, i + 1, i + Len(a.s)) = a.s

\* the test of line 82 without a.lower()
AllergenMatchesCaseSensitive(a, txt) == PyIn(a, txt)

\* the test of line 82, txt being the lower-cased text
AllergenMatches(a, txt) == PyIn(PyLower(a), txt)

RECURSIVE DetectLoop(_, _, _, _)
DetectLoop(txt, user_allergies, i, found) ==
    IF i > Len(user_allergies)
    THEN found
    ELSE DetectLoop(txt, user_allergies, i + 1,
                    IF AllergenMatches(user_allergies[i], txt)
                    THEN Append(found, user_allergies[i])
                    ELSE found)

detect_allergens(ingredients_text, user_allergies) ==
    IF ~Truthy(ingredients_text)
    THEN <<>>
    ELSE DetectLoop(PyLower(ingredients_text), user_allergies, 1, <<>>)

-----------------------------------------------------------------------------
(* pydantic validation of a field (pydantic 2: main.py calls model_dump).  *)
(* A result is [ok, value]; ok = FALSE is a ValidationError.               *)

Digits == <<"0", "1", "2", "3", "4", "5", "6", "7", "8", "9">>

IsDigit(ch) == \E k \in 1..Len(Digits) : Digits[k] = ch

DigitValue(ch) == (CHOOSE k \in 1..Len(Digits) : Digits[k] = ch) - 1

RECURSIVE DigitsValue(_, _)
DigitsValue(chars, acc) ==
    IF chars = <<>> THEN acc ELSE DigitsValue(Tail(chars), 10 * acc + DigitValue(Head(chars)))

\* a str that float() reads: here, a non-empty run of digits
IsNumeric(chars) == chars # <<>> /\ \A k \in 1..Len(chars) : IsDigit(chars[k])

\* a field declared str
ValidateStr(v) == [ok |-> v.t = "str", value |-> v]

\* a field declared Optional[str]: an int is not turned into a str
ValidateOptStr(v) ==
    IF v.t \in {"none", "absent"}
    THEN [ok |-> TRUE, value |-> PyNone]
    ELSE [ok |-> v.t = "str", value |-> v]

\* a field declared Optional[float]: ints and numeric strs are converted
ValidateOptFloat(v) ==
    CASE v.t \in {"none", "absent"} -> [ok |-> TRUE, value |-> PyNone]
      [] v.t \in {"float", "nan"} -> [ok |-> TRUE, value |-> v]
      [] v.t = "int" -> [ok |-> TRUE, value |-> PyFloat(2 * v.n)]
      [] v.t = "str" /\ IsNumeric(v.s) -> [ok |-> TRUE, value |-> PyFloat(2 * DigitsValue(v.s, 0))]
      [] OTHER -> [ok |-> FALSE, value |-> v]

\* dict.get(key): None for a key that is missing
Get(v) == IF v.t = "absent" THEN PyNone ELSE v

\* the exception classes the handlers meet; all but none derive from Exception
NoException == "none"

IsException(exc) ==
    exc \in {"RequestException", "JSONDecodeError", "AttributeError", "TypeError",
             "ValidationError", "HTTPException"}

-----------------------------------------------------------------------------
(* find_alternatives, main.py 87-103.  ext is what the search API does     *)
(* for the request: [net, body, products, entries].                        *)

Str_healthy == <<"h", "e", "a", "l", "t", "h", "y">>

Str_Alternative == <<"A", "l", "t", "e", "r", "n", "a", "t", "i", "v", "e">>

\* line 91: the search terms
AltQuery(item) == PyOr(PyOr(item.brand, item.name), PyStr(Str_healthy))

\* lines 95-100 for one product p: [exc, alt]
AltOfProduct(p) ==
    IF p.kind # "object"
    THEN [exc |-> "AttributeError", alt |-> PyNone]
    ELSE LET name == ValidateStr(PyOr(Get(p.product_name), PyStr(Str_Alternative)))
             brand == ValidateOptStr(Get(p.brands))
             image_url == ValidateOptStr(PyOr(Get(p.image_front_small_url), Get(p.image_url)))
             barcode == ValidateOptStr(Get(p.code))
         IN  IF name.ok /\ brand.ok /\ image_url.ok /\ barcode.ok
             THEN [exc |-> NoException,
                   alt |-> Alternative(name.value, brand.value, image_url.value, barcode.value)]
             ELSE [exc |-> "ValidationError", alt |-> PyNone]

\* seq[:5]
Take(seq, k) == SubSeq(seq, 1, Min(k, Len(seq)))

\* the for loop of lines 94-100: [exc, results]
RECURSIVE AltLoop(_, _, _)
AltLoop(products, i, results) ==
    IF i > Len(products)
    THEN [exc |-> NoException, results |-> results]
    ELSE LET r == AltOfProduct(products[i]) IN
         IF r.exc # NoException
         THEN [exc |-> r.exc, results |-> results]
         ELSE AltLoop(products, i + 1, Append(results, r.alt))

\* the body of the try block, lines 91-100: [exc, results]
AltTry(item, ext) ==
    CASE ext.net # "ok" -> [exc |-> "RequestException", results |-> <<>>]
      [] ext.body = "notjson" -> [exc |-> "JSONDecodeError", results |-> <<>>]
      [] ext.body # "object" -> [exc |-> "AttributeError", results |-> <<>>]
      [] ext.products = "absent" -> AltLoop(<<>>, 1, <<>>)
      [] ext.products # "list" -> [exc |-> "TypeError", results |-> <<>>]
      [] OTHER -> AltLoop(Take(ext.entries, 5), 1, <<>>)

\* an except clause that lets validation errors through
AltExceptNarrow(exc) == IF IsException(exc) /\ exc # "ValidationError" THEN NoException ELSE exc

\* the except clause, lines 101-102: which exceptions leave the function
AltExcept(exc) == IF IsException(exc) THEN NoException ELSE exc

\* [raised, value]: raised is the exception that leaves the function
find_alternatives(item, goal, ext) ==
    LET body == AltTry(item, ext)
    IN  [raised |-> AltExcept(body.exc), value |-> body.results]

-----------------------------------------------------------------------------
(* barcode_lookup, main.py 134-164.  ext is what the product API does for  *)
(* the request: [net, body, status, product].                              *)

\* data.get("status") != 1, with Python's ==: True == 1 and 1.0 == 1
NotEqualsOne(v) ==
    ~ \/ v.t \in {"int", "bool"} /\ v.n = 1
      \/ v.t = "float" /\ v.n = 2

\* lines 141-159: [exc, item]
BarcodeMap(p) ==
    IF p.kind \notin {"absent", "object"}
    THEN [exc |-> "AttributeError", item |-> PyNone]
    ELSE IF p.nutriments.kind \notin {"absent", "object"}
    THEN [exc |-> "AttributeError", item |-> PyNone]
    ELSE LET name == ValidateOptStr(Get(p.product_name))
             brand == ValidateOptStr(Get(p.brands))
             barcode == ValidateOptStr(Get(p.code))
             image_url == ValidateOptStr(PyOr(Get(p.image_front_small_url), Get(p.image_url)))
             ingredients_text == ValidateOptStr(Get(p.ingredients_text))
             calories == ValidateOptFloat(Get(p.nutriments.energy_kcal_100g))
             protein == ValidateOptFloat(Get(p.nutriments.proteins_100g))
             carbs == ValidateOptFloat(Get(p.nutriments.carbohydrates_100g))
             sugar == ValidateOptFloat(Get(p.nutriments.sugars_100g))
             processing_level == ValidateOptStr(Get(p.nova_group))
         IN  IF /\ name.ok /\ brand.ok /\ barcode.ok /\ image_url.ok /\ ingredients_text.ok
                /\ calories.ok /\ protein.ok /\ carbs.ok /\ sugar.ok /\ processing_level.ok
             THEN [exc |-> NoException,
                   item |-> ScanItem(name.value, brand.value, barcode.value, image_url.value,
                                     ingredients_text.value,
                                     Nutrients(calories.value, protein.value, carbs.value,
                                               sugar.value),
                                     processing_level.value)]
             ELSE [exc |-> "ValidationError", item |-> PyNone]

\* the body of the try block, lines 137-160: [exc, status_code, item]
BarcodeTry(code, ext) ==
    CASE ext.net # "ok" -> [exc |-> "RequestException", status_code |-> 0, item |-> PyNone]
      [] ext.body = "notjson" -> [exc |-> "JSONDecodeError", status_code |-> 0, item |-> PyNone]
      [] ext.body # "object" -> [exc |-> "AttributeError", status_code |-> 0, item |-> PyNone]
      [] NotEqualsOne(Get(ext.status)) ->
            [exc |-> "HTTPException", status_code |-> 404, item |-> PyNone]
      [] OTHER -> LET m == BarcodeMap(ext.product)
                  IN  [exc |-> m.exc, status_code |-> 0, item |-> m.item]

\* the except clauses in the other order: Exception first catches the 404 too
BarcodeExceptCatchAll(body) ==
    IF body.exc = NoException
    THEN [status_code |-> 200, item |-> body.item]
    ELSE [status_code |-> 500, item |-> PyNone]

\* the except clauses, lines 161-164: the response for the outcome of the body
BarcodeExcept(body) ==
    IF body.exc = NoException
    THEN [status_code |-> 200, item |-> body.item]
    ELSE IF body.exc = "HTTPException"
         THEN [status_code |-> body.status_code, item |-> PyNone]
         ELSE [status_code |-> 500, item |-> PyNone]

barcode_lookup(code, ext) == BarcodeExcept(BarcodeTry(code, ext))

-----------------------------------------------------------------------------
(* The document store, module `database`: create_document(collection,      *)
(* record) -> id and get_documents(collection, filter, limit) -> list.     *)
(* A collection is the sequence of its documents in insertion order.       *)

ObjectId(k) == [t |-> "ObjectId", s |-> <<>>, n |-> k]

RECURSIVE DecimalChars(_)
DecimalChars(k) ==
    IF k < 10 THEN <<Digits[k + 1]>> ELSE DecimalChars(k \div 10) \o <<Digits[(k % 10) + 1]>>

\* str(v) of an ObjectId or a str
PyStrOf(v) == IF v.t = "ObjectId" THEN PyStr(<<"i", "d">> \o DecimalChars(v.n)) ELSE v

\* the stored document of a UserProfile
ProfileDoc(_id, profile) ==
    [_id |-> _id, user_id |-> profile.user_id, name |-> profile.name, goal |-> profile.goal,
     allergies |-> profile.allergies, sensitivities |-> profile.sensitivities,
     language |-> profile.language]

\* the stored document of a ScanRecord
ScanDoc(_id, record) ==
    [_id |-> _id, user_id |-> record.user_id, goal |-> record.goal, item |-> record.item,
     verdict |-> record.verdict, allergens_found |-> record.allergens_found,
     alternatives |-> record.alternatives]

\* create_document: the collection with the document added, and the id returned
create_document(collection, doc) ==
    [collection |-> Append(collection, doc), id |-> PyStrOf(doc._id)]

\* get_documents(collection, {"user_id": user_id}, limit)
get_documents(collection, user_id, limit) ==
    LET matches(d) == d.user_id = user_id
    IN  Take(SelectSeq(collection, matches), limit)

-----------------------------------------------------------------------------
(* get_or_create_profile, main.py 188-197.                                 *)

\* lines 192-194 without the serialisation of _id
ProfileFoundRaw(docs) == docs[1]

\* lines 192-194: the response for a stored profile
ProfileFound(docs) == [docs[1] EXCEPT !._id = PyStrOf(@)]

\* line 197: the response for a profile just created
ProfileCreated(_id, profile) == ProfileDoc(_id, profile)

-----------------------------------------------------------------------------
(* The store and the clients at rest: the state of the specifications of   *)
(* the pure functions, and the initial state of the others.                *)

Clients == {"c1", "c2"}

Users == {"u1", "u2"}

Endpoints == {"root", "test_database", "barcode_lookup", "generate_verdict",
              "get_or_create_profile", "scan_image"}

\* a client with no request in flight
Idle == [op |-> "idle", user_id |-> "", goal |-> "", docs |-> <<>>, record |-> <<>>]

NoResponse == [op |-> "none", status_code |-> 0, body |-> <<>>]

StoreInit ==
    /\ userprofile = <<>>
    /\ scanrecord = <<>>
    /\ nextId = 1
    /\ pc = [c \in Clients |-> Idle]
    /\ started = 0
    /\ completed = [e \in Endpoints |-> 0]
    /\ response = NoResponse
    /\ history = <<>>

Pending == [done |-> FALSE, value |-> PyNone]

Returned(v) == [done |-> TRUE, value |-> v]

\* all sequences over S of length at most n
SeqsUpTo(S, n) == UNION {[1..k -> S] : k \in 0..n}

-----------------------------------------------------------------------------
(* SpecVerdict: compute_verdict applied to every goal and item.            *)

\* how far around each threshold of the source the nutrient values go, in halves
Spread == 1

Near(thresholds) == {2 * c + d : c \in thresholds, d \in (0 - Spread)..Spread}

SugarValues == {PyNone, PyNaN, PyFloat(0), PyFloat(-2)} \cup {PyFloat(h) : h \in Near({5, 10})}

ProteinValues == {PyNone, PyNaN, PyFloat(0), PyFloat(-2)} \cup {PyFloat(h) : h \in Near({10, 20})}

CaloriesValues == {PyNone, PyNaN, PyFloat(0), PyFloat(-2)} \cup {PyFloat(h) : h \in Near({150, 350})}

ItemWith(nutrients) == ScanItem(PyNone, PyNone, PyNone, PyNone, PyNone, nutrients, PyNone)

VerdictItems ==
    {ItemWith(NoNutrients)} \cup
    {ItemWith(Nutrients(c, p, PyNone, s)) :
        c \in CaloriesValues, p \in ProteinValues, s \in SugarValues}

InitVerdict ==
    /\ StoreInit
    /\ input \in [goal : GoalType, item : VerdictItems]
    /\ output = Pending

CallVerdict ==
    /\ ~output.done
    /\ output' = Returned(compute_verdict(input.goal, input.item))
    /\ UNCHANGED <<input, storeVars>>

SpecVerdict == InitVerdict /\ [][CallVerdict]_vars

-----------------------------------------------------------------------------
(* SpecAllergen: detect_allergens applied to every text and allergy list.  *)

MaxText == 3

MaxAllergies == 2

Alphabet == {"a", "A", "b"}

Texts == {PyNone} \cup {PyStr(chars) : chars \in SeqsUpTo(Alphabet, MaxText)}

AllergyTerms ==
    {PyStr(<<>>), PyStr(<<"a">>), PyStr(<<"A">>), PyStr(<<"b">>),
     PyStr(<<"a", "b">>), PyStr(<<"A", "b">>), PyStr(<<"b", "A">>)}

InitAllergen ==
    /\ StoreInit
    /\ input \in [ingredients_text : Texts,
                  user_allergies : SeqsUpTo(AllergyTerms, MaxAllergies)]
    /\ output = Pending

CallAllergen ==
    /\ ~output.done
    /\ output' = Returned(detect_allergens(input.ingredients_text, input.user_allergies))
    /\ UNCHANGED <<input, storeVars>>

SpecAllergen == InitAllergen /\ [][CallAllergen]_vars

-----------------------------------------------------------------------------
(* SpecAlt: find_alternatives under every behaviour of the search API.     *)

MaxProducts == 6

Str_Acme == <<"A", "c", "m", "e">>

Str_Cola == <<"C", "o", "l", "a">>

Str_Oat == <<"O", "a", "t">>

Str_url == <<"u", "r", "l">>

\* one element of the "products" array
Product(kind, product_name, brands, image_front_small_url, image_url, code) ==
    [kind |-> kind, product_name |-> product_name, brands |-> brands,
     image_front_small_url |-> image_front_small_url, image_url |-> image_url,
     code |-> code]

ProductEntries ==
    {Product("object", PyStr(Str_Oat), PyStr(Str_Acme), Absent, PyStr(Str_url), PyStr(<<"1">>)),
     Product("object", Absent, PyNone, PyStr(<<>>), Absent, PyStr(<<"2">>)),
     Product("object", PyInt(7), Absent, Absent, Absent, PyStr(<<"3">>)),
     Product("null", Absent, Absent, Absent, Absent, Absent)}

SearchResponse(net, body, products, entries) ==
    [net |-> net, body |-> body, products |-> products, entries |-> entries]

SearchResponses ==
    {SearchResponse("error", "none", "absent", <<>>),
     SearchResponse("ok", "notjson", "absent", <<>>),
     SearchResponse("ok", "list", "absent", <<>>),
     SearchResponse("ok", "object", "absent", <<>>),
     SearchResponse("ok", "object", "null", <<>>)} \cup
    {SearchResponse("ok", "object", "list", es) : es \in SeqsUpTo(ProductEntries, MaxProducts)}

AltItems ==
    {ScanItem(n, b, PyNone, PyNone, PyNone, NoNutrients, PyNone) :
        n \in {PyNone, PyStr(Str_Cola)}, b \in {PyNone, PyStr(<<>>), PyStr(Str_Acme)}}

InitAlt ==
    /\ StoreInit
    /\ input \in [item : AltItems, goal : {"balanced"}, ext : SearchResponses]
    /\ output = Pending

CallAlt ==
    /\ ~output.done
    /\ output' = Returned(find_alternatives(input.item, input.goal, input.ext))
    /\ UNCHANGED <<input, storeVars>>

SpecAlt == InitAlt /\ [][CallAlt]_vars

-----------------------------------------------------------------------------
(* SpecBarcode: barcode_lookup under every behaviour of the product API.   *)

Str_code == <<"7", "3", "7">>

Nutriments(kind, energy_kcal_100g, proteins_100g, carbohydrates_100g, sugars_100g) ==
    [kind |-> kind, energy_kcal_100g |-> energy_kcal_100g, proteins_100g |-> proteins_100g,
     carbohydrates_100g |-> carbohydrates_100g, sugars_100g |-> sugars_100g]

NutrimentsValues ==
    {Nutriments("absent", Absent, Absent, Absent, Absent),
     Nutriments("null", Absent, Absent, Absent, Absent)} \cup
    {Nutriments("object", PyInt(42), Absent, PyNone, s) :
        s \in {Absent, PyFloat(25), PyNaN, PyStr(<<"1", "2">>), PyStr(<<"a">>)}}

ProductPayload(kind, product_name, image_front_small_url, image_url, nutriments, nova_group) ==
    [kind |-> kind, product_name |-> product_name, brands |-> PyStr(Str_Acme),
     code |-> PyStr(Str_code), image_front_small_url |-> image_front_small_url,
     image_url |-> image_url, ingredients_text |-> Absent, nutriments |-> nutriments,
     nova_group |-> nova_group]

NoNutriments == Nutriments("absent", Absent, Absent, Absent, Absent)

\* a response without the "product" key
NoProduct == ProductPayload("absent", Absent, Absent, Absent, NoNutriments, Absent)

ProductPayloads ==
    {NoProduct, ProductPayload("null", Absent, Absent, Absent, NoNutriments, Absent)} \cup
    {ProductPayload("object", pn, i1, i2, nu, ng) :
        pn \in {Absent, PyStr(Str_Cola), PyInt(7)},
        i1 \in {Absent, PyStr(<<>>), PyStr(Str_url)},
        i2 \in {Absent, PyStr(Str_url)},
        nu \in NutrimentsValues,
        ng \in {Absent, PyStr(<<"4">>), PyInt(4)}}

StatusValues == {Absent, PyNone, PyInt(0), PyInt(1), PyStr(<<"1">>), PyBool(TRUE), PyFloat(2)}

ProductResponse(net, body, status, product) ==
    [net |-> net, body |-> body, status |-> status, product |-> product]

ProductResponses ==
    {ProductResponse("error", "none", Absent, NoProduct),
     ProductResponse("ok", "notjson", Absent, NoProduct),
     ProductResponse("ok", "list", Absent, NoProduct)} \cup
    {ProductResponse("ok", "object", st, pr) : st \in StatusValues, pr \in ProductPayloads}

InitBarcode ==
    /\ StoreInit
    /\ input \in [code : {PyStr(Str_code)}, ext : ProductResponses]
    /\ output = Pending

CallBarcode ==
    /\ ~output.done
    /\ output' = Returned(barcode_lookup(input.code, input.ext))
    /\ UNCHANGED <<input, storeVars>>

SpecBarcode == InitBarcode /\ [][CallBarcode]_vars

-----------------------------------------------------------------------------
(* Properties of compute_verdict (SpecVerdict).                            *)

\* comparisons of a present nutrient value with a number: none holds of nan
IsNumber(x) == x.t = "float"

NumLe(x, c) == IsNumber(x) /\ x.n <= 2 * c

NumLt(x, c) == IsNumber(x) /\ x.n < 2 * c

NumGe(x, c) == IsNumber(x) /\ x.n >= 2 * c

NumGt(x, c) == IsNumber(x) /\ x.n > 2 * c

SugarGoals == {"low_sugar", "heart_health"}

SugarPresent(item) == item.nutrients.present /\ item.nutrients.sugar.t # "none"

ProteinPresent(item) == item.nutrients.present /\ item.nutrients.protein.t # "none"

CaloriesPresent(item) == item.nutrients.present /\ item.nutrients.calories.t # "none"

\* C6: for every goal and item the score of the verdict is an integer in
\* [0,100] and the color follows from the score alone: green exactly when
\* score >= 75, yellow exactly when 55 <= score < 75, red exactly when
\* score < 55.
C6_ScoreRangeAndColor ==
    output.done =>
        LET v == output.value IN
        /\ v.score \in 0..100
        /\ (v.color = "green") <=> (v.score >= 75)
        /\ (v.color = "yellow") <=> (55 <= v.score /\ v.score < 75)
        /\ (v.color = "red") <=> (v.score < 55)
        /\ v.color \in {"green", "yellow", "red"}

\* a verdict at the lower edge of yellow
C6_Witness ==
    /\ output.done
    /\ input.goal = "weight_loss"
    /\ output.value.score = 55
    /\ output.value.color = "yellow"

\* the adjustments as the claim C7 lists them
C7_ClaimedAdjustment(goal, item) ==
    LET n == item.nutrients IN
    IF goal \in SugarGoals /\ SugarPresent(item)
    THEN (IF NumLe(n.sugar, 5) THEN 20
          ELSE IF NumGt(n.sugar, 5) /\ NumLe(n.sugar, 10) THEN 0
          ELSE IF NumGt(n.sugar, 10) THEN 0 - 25
          ELSE 0)
    ELSE IF goal = "muscle_gain" /\ ProteinPresent(item)
    THEN (IF NumGe(n.protein, 20) THEN 15
          ELSE IF NumGe(n.protein, 10) /\ NumLt(n.protein, 20) THEN 5
          ELSE IF NumLt(n.protein, 10) THEN 0 - 10
          ELSE 0)
    ELSE IF goal = "weight_loss" /\ CaloriesPresent(item)
    THEN (IF NumLe(n.calories, 150) THEN 10
          ELSE IF NumGt(n.calories, 150) /\ NumLe(n.calories, 350) THEN 0
          ELSE IF NumGt(n.calories, 350) THEN 0 - 15
          ELSE 0)
    ELSE 0

\* C7 as stated: the score is 70 plus the adjustment of the branch the goal
\* selects (-25 if sugar > 10, -10 if protein < 10, ...), and 70 in every
\* other case.
C7_Original ==
    output.done => output.value.score = 70 + C7_ClaimedAdjustment(input.goal, input.item)

\* the adjustments with the last case of the sugar and protein branches an
\* "otherwise", as lines 45 and 53 have it
C7_AmendedAdjustment(goal, item) ==
    LET n == item.nutrients IN
    IF goal \in SugarGoals /\ SugarPresent(item)
    THEN (IF NumLe(n.sugar, 5) THEN 20
          ELSE IF NumGt(n.sugar, 5) /\ NumLe(n.sugar, 10) THEN 0
          ELSE 0 - 25)
    ELSE IF goal = "muscle_gain" /\ ProteinPresent(item)
    THEN (IF NumGe(n.protein, 20) THEN 15
          ELSE IF NumGe(n.protein, 10) /\ NumLt(n.protein, 20) THEN 5
          ELSE 0 - 10)
    ELSE IF goal = "weight_loss" /\ CaloriesPresent(item)
    THEN (IF NumLe(n.calories, 150) THEN 10
          ELSE IF NumGt(n.calories, 350) THEN 0 - 15
          ELSE 0)
    ELSE 0

\* C7 (amended): the score is 70 plus the adjustment of the one branch the
\* goal selects, where the sugar branch gives -25 and the protein branch -10
\* for every present value that passes neither of the two earlier tests
\* (sugar > 10 or nan; protein < 10 or nan); 70 in every other case.
C7_Amended ==
    output.done => output.value.score = 70 + C7_AmendedAdjustment(input.goal, input.item)

\* muscle_gain with a protein value that is nan
C7_Witness ==
    /\ output.done
    /\ input.goal = "muscle_gain"
    /\ input.item.nutrients.present
    /\ input.item.nutrients.protein = PyNaN
    /\ output.value.score = 60

\* C8 as stated: insulin_risk is low exactly when the goal is low_sugar or
\* heart_health and sugar is present and <= 5, high exactly when the goal is
\* one of the two and sugar is present and > 10, and medium otherwise.
C8_Original ==
    output.done =>
        LET risk == output.value.insulin_risk
            sugar == input.item.nutrients.sugar
            sugarGoal == input.goal \in SugarGoals /\ SugarPresent(input.item)
        IN
        /\ (risk = "low") <=> (sugarGoal /\ NumLe(sugar, 5))
        /\ (risk = "high") <=> (sugarGoal /\ NumGt(sugar, 10))
        /\ (risk = "medium") <=> ~(sugarGoal /\ (NumLe(sugar, 5) \/ NumGt(sugar, 10)))

\* C8 (amended): insulin_risk is low exactly when the goal is low_sugar or
\* heart_health and sugar is present and <= 5, high exactly when the goal is
\* one of the two and sugar is present and not <= 10 (greater than 10, or
\* nan), and medium otherwise; for the other three goals it is medium
\* whatever the nutrients are.
C8_Amended ==
    output.done =>
        LET risk == output.value.insulin_risk
            sugar == input.item.nutrients.sugar
            sugarGoal == input.goal \in SugarGoals /\ SugarPresent(input.item)
        IN
        /\ (risk = "low") <=> (sugarGoal /\ NumLe(sugar, 5))
        /\ (risk = "high") <=> (sugarGoal /\ ~NumLe(sugar, 10))
        /\ (risk = "medium") <=> ~(sugarGoal /\ (NumLe(sugar, 5) \/ ~NumLe(sugar, 10)))
        /\ input.goal \notin SugarGoals => risk = "medium"

\* heart_health with a sugar value that is nan
C8_Witness ==
    /\ output.done
    /\ input.goal = "heart_health"
    /\ input.item.nutrients.present
    /\ input.item.nutrients.sugar = PyNaN
    /\ output.value.insulin_risk = "high"

\* C10: insulin_risk = high implies score = 45 and color = red, and
\* insulin_risk = low implies score = 90 and color = green.
C10_RiskColorCoupled ==
    output.done =>
        LET v == output.value IN
        /\ v.insulin_risk = "high" => (v.score = 45 /\ v.color = "red")
        /\ v.insulin_risk = "low" => (v.score = 90 /\ v.color = "green")

\* a low-risk verdict of an item whose protein and calories would move the
\* score under another goal
C10_Witness ==
    /\ output.done
    /\ output.value.insulin_risk = "low"
    /\ output.value.color = "green"
    /\ NumGe(input.item.nutrients.protein, 20)
    /\ NumGt(input.item.nutrients.calories, 350)

-----------------------------------------------------------------------------
(* Properties of detect_allergens (SpecAllergen).                          *)

\* the positions of the allergy list whose lower-cased term is a substring
\* of the lower-cased text
C9_Positions ==
    {i \in 1..Len(input.user_allergies) :
        PyIn(PyLower(input.user_allergies[i]), PyLower(input.ingredients_text))}

\* the k-th of them, in the order of the list
C9_Position(k) ==
    CHOOSE i \in C9_Positions : Cardinality({j \in C9_Positions : j <= i}) = k

\* C9: detect_allergens returns the empty list when the text is absent or
\* empty, and otherwise exactly the allergy terms whose lower-cased form is
\* a substring of the lower-cased text, one entry per matching position of
\* the list, in the order and with the spelling of the list.
C9_ExactMatches ==
    output.done =>
        LET found == output.value IN
        IF input.ingredients_text.t = "none" \/ input.ingredients_text.s = <<>>
        THEN found = <<>>
        ELSE /\ Len(found) = Cardinality(C9_Positions)
             /\ \A k \in 1..Len(found) : found[k] = input.user_allergies[C9_Position(k)]

\* a term spelled with a capital found in a text that has it in lower case,
\* next to a term that is not found
C9_Witness ==
    /\ output.done
    /\ input.ingredients_text = PyStr(<<"a", "b", "b">>)
    /\ input.user_allergies = <<PyStr(<<"b", "A">>), PyStr(<<"A", "b">>)>>
    /\ output.value = <<PyStr(<<"A", "b">>)>>

-----------------------------------------------------------------------------
(* Properties of find_alternatives (SpecAlt).                              *)

C4_StrOrMissing(v) == v.t \in {"str", "none", "absent"}

\* the product maps into an Alternative
C4_Mappable(p) ==
    /\ p.kind = "object"
    /\ Truthy(p.product_name) => p.product_name.t = "str"
    /\ C4_StrOrMissing(p.brands)
    /\ C4_StrOrMissing(PyOr(Get(p.image_front_small_url), Get(p.image_url)))
    /\ C4_StrOrMissing(p.code)

\* the products the function maps: the first five
C4_Mapped == SubSeq(input.ext.entries, 1, Min(5, Len(input.ext.entries)))

\* the request failed, the body is not a JSON object or "products" is no list
C4_NoProducts ==
    \/ input.ext.net # "ok"
    \/ input.ext.body # "object"
    \/ input.ext.products \notin {"absent", "list"}

\* mapping one of the products fails
C4_MappingFails ==
    /\ ~C4_NoProducts
    /\ \E i \in 1..Len(C4_Mapped) : ~C4_Mappable(C4_Mapped[i])

\* the number of products mapped before the first that fails
C4_Leading ==
    CHOOSE k \in 0..Len(C4_Mapped) :
        /\ \A i \in 1..k : C4_Mappable(C4_Mapped[i])
        /\ k = Len(C4_Mapped) \/ ~C4_Mappable(C4_Mapped[k + 1])

\* C4 as stated: find_alternatives never raises, and on any network or
\* parsing failure, a failure while mapping one of the products included,
\* it returns the empty list.
C4_Original ==
    output.done =>
        /\ output.value.raised = NoException
        /\ (C4_NoProducts \/ C4_MappingFails) => output.value.value = <<>>

\* C4 (amended): find_alternatives never raises; it returns the empty list
\* when the request fails, the body is not a JSON object or "products" is
\* not a list; and when mapping the k-th of the first five products fails
\* it returns the k-1 alternatives mapped before it (the empty list only
\* when the first product fails).
C4_Amended ==
    output.done =>
        LET alts == output.value.value IN
        /\ output.value.raised = NoException
        /\ C4_NoProducts => alts = <<>>
        /\ ~C4_NoProducts =>
              /\ Len(alts) = C4_Leading
              /\ \A i \in 1..Len(alts) :
                    /\ alts[i].barcode = Get(C4_Mapped[i].code)
                    /\ alts[i].brand = Get(C4_Mapped[i].brands)
                    /\ alts[i].name = IF Truthy(C4_Mapped[i].product_name)
                                      THEN C4_Mapped[i].product_name
                                      ELSE PyStr(Str_Alternative)

\* two products mapped, the third fails validation
C4_Witness ==
    /\ output.done
    /\ C4_MappingFails
    /\ Len(input.ext.entries) >= 3
    /\ input.ext.entries[3].product_name = PyInt(7)
    /\ Len(output.value.value) = 2

-----------------------------------------------------------------------------
(* Properties of barcode_lookup (SpecBarcode).                             *)

\* the external response was parsed: a JSON object came back
C3_Parsed == input.ext.net = "ok" /\ input.ext.body = "object"

\* its status is the number 1
C3_StatusIsOne ==
    \/ input.ext.status.t = "int" /\ input.ext.status.n = 1
    \/ input.ext.status.t = "float" /\ input.ext.status.n = 2

\* its status is equal to 1 as Python compares: True == 1
C3_StatusEqualsOne == C3_StatusIsOne \/ input.ext.status = PyBool(TRUE)

C3_FloatOrMissing(v) ==
    \/ v.t \in {"float", "nan", "int", "none", "absent"}
    \/ v.t = "str" /\ v.s # <<>> /\ \A k \in 1..Len(v.s) : IsDigit(v.s[k])

\* the payload maps into a ScanItem
C3_Mappable ==
    LET p == input.ext.product IN
    /\ p.kind \in {"absent", "object"}
    /\ p.nutriments.kind \in {"absent", "object"}
    /\ \A v \in {p.product_name, p.brands, p.code, p.ingredients_text, p.nova_group,
                 PyOr(Get(p.image_front_small_url), Get(p.image_url))} :
            C4_StrOrMissing(v)
    /\ \A v \in {p.nutriments.energy_kcal_100g, p.nutriments.proteins_100g,
                 p.nutriments.carbohydrates_100g, p.nutriments.sugars_100g} :
            C3_FloatOrMissing(v)

\* C3 as stated: 404 when the response is parsed and its status is not 1;
\* 200 with a ScanItem whenever the response is parsed with status 1; 500
\* when the request, the parsing or the mapping fails in any other way.
C3_Original ==
    output.done =>
        LET r == output.value IN
        /\ r.status_code \in {200, 404, 500}
        /\ (C3_Parsed /\ ~C3_StatusIsOne) => r.status_code = 404
        /\ (C3_Parsed /\ C3_StatusIsOne) => r.status_code = 200
        /\ ~C3_Parsed => r.status_code = 500

\* C3 (amended): barcode_lookup has exactly three outcomes.  404 exactly
\* when the response is parsed as a JSON object whose status does not
\* compare equal to 1 (Python's ==, for which true and 1.0 equal 1); the 404
\* is re-raised, never turned into a 500.  200 with the ScanItem mapped from
\* the payload exactly when the status compares equal to 1 and the payload
\* maps into a ScanItem.  500 in every other case: the request fails, the
\* body is not a JSON object, or the mapping fails.
C3_Amended ==
    output.done =>
        LET r == output.value
            p == input.ext.product
        IN
        /\ r.status_code \in {200, 404, 500}
        /\ (r.status_code = 404) <=> (C3_Parsed /\ ~C3_StatusEqualsOne)
        /\ (r.status_code = 200) <=> (C3_Parsed /\ C3_StatusEqualsOne /\ C3_Mappable)
        /\ r.status_code = 200 =>
              /\ r.item.name = Get(p.product_name)
              /\ r.item.barcode = Get(p.code)
              /\ r.item.processing_level = Get(p.nova_group)
              /\ r.item.image_url = PyOr(Get(p.image_front_small_url), Get(p.image_url))
              /\ r.item.nutrients.present
              /\ p.nutriments.sugars_100g.t \in {"float", "nan"} =>
                    r.item.nutrients.sugar = p.nutriments.sugars_100g
              /\ r.item.nutrients.calories =
                    IF p.nutriments.energy_kcal_100g.t = "int"
                    THEN PyFloat(2 * p.nutriments.energy_kcal_100g.n)
                    ELSE PyNone

\* a product found (status 1) whose nova_group is a number: the mapping
\* fails and the answer is 500
C3_Witness ==
    /\ output.done
    /\ C3_Parsed
    /\ input.ext.status = PyInt(1)
    /\ input.ext.product.kind = "object"
    /\ input.ext.product.nova_group = PyInt(4)
    /\ output.value.status_code = 500

-----------------------------------------------------------------------------
(* Spec: the endpoints of main.py 107-210, requests of the clients         *)
(* interleaved.  A handler that reaches the store after a call to the      *)
(* search API, or twice, takes one step up to that point and one for the   *)
(* rest.                                                                   *)

\* the number of requests the service accepts
MaxRequests == 3

ReqGoals == {"balanced", "low_sugar"}

Str_rice == <<"r", "i", "c", "e">>

Str_Detected_Meal == <<"D", "e", "t", "e", "c", "t", "e", "d", " ", "M", "e", "a", "l">>

Str_rice_chicken_spices ==
    <<"r", "i", "c", "e", ",", " ", "c", "h", "i", "c", "k", "e", "n", ",", " ",
      "s", "p", "i", "c", "e", "s">>

\* the item the clients send to /api/verdict
ReqItems ==
    {ScanItem(PyStr(Str_Cola), PyStr(Str_Acme), PyNone, PyNone, PyStr(Str_rice),
              Nutrients(PyNone, PyNone, PyNone, PyFloat(24)), PyNone)}

\* what the search API does for a handler's request
ReqSearch ==
    {SearchResponse("error", "none", "absent", <<>>),
     SearchResponse("ok", "object", "list",
        <<Product("object", PyStr(Str_Oat), PyStr(Str_Acme), Absent, PyStr(Str_url), PyStr(<<"1">>))>>)}

\* what the product API does for a handler's request
ReqProduct ==
    {ProductResponse("error", "none", Absent, NoProduct),
     ProductResponse("ok", "object", PyInt(0), NoProduct),
     ProductResponse("ok", "object", PyInt(1),
        ProductPayload("object", PyStr(Str_Cola), Absent, Absent, NoNutriments, Absent))}

Respond(op, status_code, body) == [op |-> op, status_code |-> status_code, body |-> body]

\* the request is answered with 200
Complete(e) == completed' = [completed EXCEPT ![e] = @ + 1]

Accept(c) == pc[c] = Idle /\ started < MaxRequests /\ started' = started + 1

\* main.py 107-109
root(c) ==
    /\ Accept(c)
    /\ response' = Respond("root", 200, <<"SmartScan AI Backend Running">>)
    /\ Complete("root")
    /\ UNCHANGED <<userprofile, scanrecord, nextId, pc, history, input, output>>

\* db.list_collection_names(): the collections that hold a document
list_collection_names ==
    (IF userprofile # <<>> THEN <<"userprofile">> ELSE <<>>) \o
    (IF scanrecord # <<>> THEN <<"scanrecord">> ELSE <<>>)

\* main.py 111-131
test_database(c) ==
    /\ Accept(c)
    /\ response' = Respond("test_database", 200, Take(list_collection_names, 10))
    /\ Complete("test_database")
    /\ UNCHANGED <<userprofile, scanrecord, nextId, pc, history, input, output>>

\* main.py 134-164, the product API answering ext
BarcodeRequest(c) ==
    /\ Accept(c)
    /\ \E ext \in ReqProduct :
          LET r == barcode_lookup(PyStr(Str_code), ext) IN
          /\ response' = Respond("barcode_lookup", r.status_code, <<r.item>>)
          /\ IF r.status_code = 200 THEN Complete("barcode_lookup") ELSE UNCHANGED completed
    /\ UNCHANGED <<userprofile, scanrecord, nextId, pc, history, input, output>>

\* a scan handler up to its call of create_document: lines 169-180, 204-208
ScanPrepare(c, op, user_id, goal, item, ext) ==
    LET verdict == compute_verdict(goal, item)
        allergens == detect_allergens(item.ingredients_text, <<>>)
        alternatives == find_alternatives(item, goal, ext)
    IN  /\ Accept(c)
        /\ IF alternatives.raised # NoException
           THEN /\ response' = Respond(op, 500, <<>>)
                /\ UNCHANGED pc
           ELSE /\ pc' = [pc EXCEPT ![c] =
                            [op |-> op, user_id |-> user_id, goal |-> goal, docs |-> <<>>,
                             record |-> <<ScanRecord(user_id, goal, item, verdict, allergens,
                                                     alternatives.value)>>]]
                /\ UNCHANGED response
        /\ UNCHANGED <<userprofile, scanrecord, nextId, completed, history, input, output>>

\* main.py 167-180
generate_verdict(c) ==
    \E user_id \in Users, goal \in ReqGoals, item \in ReqItems, ext \in ReqSearch :
        ScanPrepare(c, "generate_verdict", user_id, goal, item, ext)

\* the stub item of line 204
StubItem ==
    ScanItem(PyStr(Str_Detected_Meal), PyNone, PyNone, PyNone, PyStr(Str_rice_chicken_spices),
             Nutrients(PyFloat(2 * 250), PyFloat(2 * 18), PyFloat(2 * 30), PyFloat(2 * 2)),
             PyNone)

\* main.py 202-208
scan_image(c) ==
    \E user_id \in Users, goal \in ReqGoals, ext \in ReqSearch :
        ScanPrepare(c, "scan_image", user_id, goal, StubItem, ext)

\* the bodies of lines 182 and 210
ScanResponse(op, scan_id, record) ==
    [scan_id |-> scan_id,
     item |-> IF op = "scan_image" THEN <<record.item>> ELSE <<>>,
     verdict |-> record.verdict, allergens |-> record.allergens_found,
     alternatives |-> record.alternatives]

\* main.py 181-182 and 209-210: create_document("scanrecord", record), return
ScanStore(c) ==
    /\ pc[c].op \in {"generate_verdict", "scan_image"}
    /\ LET record == pc[c].record[1]
           created == create_document(scanrecord, ScanDoc(ObjectId(nextId), record))
       IN  /\ scanrecord' = created.collection
           /\ response' = Respond(pc[c].op, 200, <<ScanResponse(pc[c].op, created.id, record)>>)
    /\ nextId' = nextId + 1
    /\ pc' = [pc EXCEPT ![c] = Idle]
    /\ Complete(pc[c].op)
    /\ UNCHANGED <<userprofile, started, history, input, output>>

\* main.py 190-194: the lookup, and the return of the profile it finds
ProfileLookup(c) ==
    /\ Accept(c)
    /\ \E user_id \in Users :
          LET docs == get_documents(userprofile, user_id, 1) IN
          IF docs # <<>>
          THEN /\ response' = Respond("get_or_create_profile", 200, <<ProfileFound(docs)>>)
               /\ Complete("get_or_create_profile")
               /\ UNCHANGED pc
          ELSE /\ pc' = [pc EXCEPT ![c] =
                           [op |-> "get_or_create_profile", user_id |-> user_id, goal |-> "",
                            docs |-> docs, record |-> <<>>]]
               /\ UNCHANGED <<response, completed>>
    /\ UNCHANGED <<userprofile, scanrecord, nextId, history, input, output>>

\* ProfileCreate with the name of the other collection
ProfileCreateWrongCollection(c) ==
    /\ pc[c].op = "get_or_create_profile"
    /\ LET profile == UserProfile(pc[c].user_id)
           created == create_document(scanrecord, ProfileDoc(ObjectId(nextId), profile))
       IN  /\ scanrecord' = created.collection
           /\ response' = Respond("get_or_create_profile", 200,
                                  <<ProfileCreated(created.id, profile)>>)
    /\ nextId' = nextId + 1
    /\ pc' = [pc EXCEPT ![c] = Idle]
    /\ Complete("get_or_create_profile")
    /\ UNCHANGED <<userprofile, started, history, input, output>>

\* main.py 195-197: no profile was found; create one and return it
ProfileCreate(c) ==
    /\ pc[c].op = "get_or_create_profile"
    /\ LET profile == UserProfile(pc[c].user_id)
           created == create_document(userprofile, ProfileDoc(ObjectId(nextId), profile))
       IN  /\ userprofile' = created.collection
           /\ response' = Respond("get_or_create_profile", 200,
                                  <<ProfileCreated(created.id, profile)>>)
    /\ nextId' = nextId + 1
    /\ pc' = [pc EXCEPT ![c] = Idle]
    /\ Complete("get_or_create_profile")
    /\ UNCHANGED <<scanrecord, started, history, input, output>>

Init ==
    /\ StoreInit
    /\ input = <<>>
    /\ output = Pending

Next ==
    \E c \in Clients :
        \/ root(c)
        \/ test_database(c)
        \/ BarcodeRequest(c)
        \/ generate_verdict(c)
        \/ scan_image(c)
        \/ ScanStore(c)
        \/ ProfileLookup(c)
        \/ ProfileCreate(c)

Spec == Init /\ [][Next]_vars

-----------------------------------------------------------------------------
(* SpecSeq: get_or_create_profile requests handled one after the other,    *)
(* each from its lookup to its return before the next begins.              *)

MaxCalls == 4

SeqUsers == {"u1", "u2", "u3"}

\* main.py 188-197 as one step; history records what the request returned
\* and how many documents it added
get_or_create_profile(user_id) ==
    /\ Len(history) < MaxCalls
    /\ LET docs == get_documents(userprofile, user_id, 1) IN
       IF docs # <<>>
       THEN /\ response' = Respond("get_or_create_profile", 200, <<ProfileFound(docs)>>)
            /\ UNCHANGED <<userprofile, nextId>>
       ELSE LET profile == UserProfile(user_id)
                created == create_document(userprofile, ProfileDoc(ObjectId(nextId), profile))
            IN  /\ userprofile' = created.collection
                /\ nextId' = nextId + 1
                /\ response' = Respond("get_or_create_profile", 200,
                                       <<ProfileCreated(created.id, profile)>>)
    /\ history' = Append(history, [user_id |-> user_id, body |-> response'.body[1],
                                   added |-> Len(userprofile') - Len(userprofile)])
    /\ Complete("get_or_create_profile")
    /\ UNCHANGED <<scanrecord, pc, started, input, output>>

NextSeq == \E user_id \in SeqUsers : get_or_create_profile(user_id)

SpecSeq == Init /\ [][NextSeq]_vars

-----------------------------------------------------------------------------
(* Properties of get_or_create_profile.                                    *)

\* the requests made so far with this user_id (SpecSeq)
C1_Calls(user_id) == {i \in 1..Len(history) : history[i].user_id = user_id}

C1_First(user_id) == CHOOSE i \in C1_Calls(user_id) : \A j \in C1_Calls(user_id) : i <= j

\* the stored profiles of this user_id
C1_Stored(user_id) == {k \in 1..Len(userprofile) : userprofile[k].user_id = user_id}

\* C1: of the requests with one user_id handled one after the other, the
\* first adds exactly one userprofile document with goal=balanced,
\* allergies=[], sensitivities=[], language=en and returns it; every later
\* one adds nothing and returns a profile with the same _id and the same
\* field values.
C1_FirstCreatesLaterReturnSame ==
    \A user_id \in SeqUsers :
        C1_Calls(user_id) # {} =>
            LET first == history[C1_First(user_id)] IN
            /\ first.added = 1
            /\ first.body.user_id = user_id
            /\ first.body.goal = "balanced"
            /\ first.body.allergies = <<>>
            /\ first.body.sensitivities = <<>>
            /\ first.body.language = "en"
            /\ first.body.name = PyNone
            /\ first.body._id.t = "str"
            /\ Cardinality(C1_Stored(user_id)) = 1
            /\ \A k \in C1_Stored(user_id) :
                  /\ PyStrOf(userprofile[k]._id) = first.body._id
                  /\ userprofile[k] = [first.body EXCEPT !._id = userprofile[k]._id]
            /\ \A j \in C1_Calls(user_id) \ {C1_First(user_id)} :
                  /\ history[j].added = 0
                  /\ history[j].body = first.body

\* a user_id asked for twice, another one in between
C1_Witness ==
    /\ Len(history) >= 3
    /\ history[1].user_id = "u1" /\ history[1].added = 1
    /\ history[2].user_id = "u2" /\ history[2].added = 1
    /\ history[3].user_id = "u1" /\ history[3].added = 0
    /\ history[3].body = history[1].body

\* C2: user_id is a unique key: in every reachable state the userprofile
\* collection holds at most one document per user_id, under any
\* interleaving of the lookups and inserts of the requests.
C2_UniqueUserId ==
    \A i, j \in 1..Len(userprofile) :
        userprofile[i].user_id = userprofile[j].user_id => i = j

-----------------------------------------------------------------------------
(* Properties of the scanrecord collection (Spec).                         *)

\* the generate_verdict and scan_image requests completed so far
C5_ScansCompleted == completed["generate_verdict"] + completed["scan_image"]

\* C5: every step leaves the scanrecord documents already stored as they
\* are, and adds exactly one document when it completes a generate_verdict
\* or scan_image request and none otherwise (whatever barcode_lookup,
\* get_or_create_profile, root and test_database do).
C5_WriteOnce ==
    [][/\ Len(scanrecord') >= Len(scanrecord)
       /\ SubSeq(scanrecord', 1, Len(scanrecord)) = scanrecord
       /\ Len(scanrecord') - Len(scanrecord) = C5_ScansCompleted' - C5_ScansCompleted
       /\ C5_ScansCompleted' - C5_ScansCompleted \in {0, 1}]_vars

\* two scans stored, of the two handlers, and a profile created
C5_Witness ==
    /\ Len(scanrecord) = 2
    /\ completed["generate_verdict"] = 1
    /\ completed["scan_image"] = 1
    /\ completed["get_or_create_profile"] = 1
    /\ Len(userprofile) = 1

=============================================================================
